---- MODULE Spec2Model ----
(***************************************************************************)
(* The two scraping scripts of the repository:                             *)
(*   scrape_nba_salaries.py   ("summary mode", Python 2): directory page   *)
(*       -> roster pages -> mean / highest salary per team -> two reports  *)
(*   scrape_nba_statistics.py ("export mode", Python 3 + pandas):          *)
(*       directory page -> roster pages -> player table -> career-stat     *)
(*       table -> joined and cleaned table, three CSV files                *)
(* Text is modelled as sequences of one-character strings, so that the     *)
(* regular expressions, the splitting and the number conversions are       *)
(* computed character by character.  The web is the environment: every     *)
(* fetch either fails or returns one of a bounded set of page contents.    *)
(***************************************************************************)
EXTENDS Integers, Sequences, FiniteSets, TLC

VARIABLES
    script,                  \* which script runs: "summary" or "export"
    pc,                      \* position in the script's top-level code
    fault,                   \* "none", or the exception that ended the run
    rosters,                 \* build_team_url(s)(): <<team, url>> in dict order
    idx,                     \* number of completed iterations of the current loop
    salary_dicts,            \* summary: player_salaries of every roster processed
    average_team_salaries,   \* summary: list of the same name
    highest_salary_per_team, \* summary: list of the same name
    report1, report2,        \* summary: lines printed by the two reports
    all_players,             \* export: <<team, player_dict>> in dict order
    all_players_df,          \* export: rows of the player/team table
    roster_records,          \* history: the player records of the roster page
                             \* that get_player_info read last
    url,                     \* export: the ids in the url built last (line 53)
    player_source,           \* export: career records found in the last stats page
    career_stats_df,         \* export: rows of the career-stat table
    all_stats_df,            \* export: rows of the joined table
    notes,                   \* export: players named by "... has no info"
    stat_log,                \* history: one entry per career-loop iteration
    fetch_log,               \* history: one entry per urlopen call
    outputs                  \* history: reports and files produced so far

vars == <<script, pc, fault, rosters, idx, salary_dicts, average_team_salaries,
          highest_salary_per_team, report1, report2, all_players, all_players_df,
          roster_records, url, player_source, career_stats_df, all_stats_df,
          notes, stat_log, fetch_log, outputs>>

----------------------------------------------------------------------------
(* Bounds of the model *)

\* most anchors matched on the directory page
MaxTeams == 2
\* most player entries on one roster page
MaxPlayers == 2

----------------------------------------------------------------------------
(* Characters, and the Python conversions used by the scripts *)

Digits == {"0", "1", "2", "3", "4", "5", "6", "7", "8", "9"}

Letters == {"A", "B", "C", "D", "E", "F", "G", "H", "I", "J", "K", "L", "M",
            "N", "O", "P", "Q", "R", "S", "T", "U", "V", "W", "X", "Y", "Z",
            "a", "b", "c", "d", "e", "f", "g", "h", "i", "j", "k", "l", "m",
            "n", "o", "p", "q", "r", "s", "t", "u", "v", "w", "x", "y", "z"}

\* the class \w of the re module
WordChars == Letters \cup Digits \cup {"_"}

\* the class \s of the re module (the one member the pages use)
SpaceChars == {" "}

DigitVal(c) ==
    CASE c = "0" -> 0 [] c = "1" -> 1 [] c = "2" -> 2 [] c = "3" -> 3
      [] c = "4" -> 4 [] c = "5" -> 5 [] c = "6" -> 6 [] c = "7" -> 7
      [] c = "8" -> 8 [] c = "9" -> 9

AllIn(s, S) == \A i \in 1..Len(s) : s[i] \in S

\* the pattern (\w+\s\w+) anchored at both ends: one or more word characters,
\* one whitespace character, one or more word characters
NameRegex(s) ==
    \E k \in 2..(Len(s) - 1) :
        /\ s[k] \in SpaceChars
        /\ AllIn(SubSeq(s, 1, k - 1), WordChars)
        /\ AllIn(SubSeq(s, k + 1, Len(s)), WordChars)

\* re.sub(<class>, "", s) for a class of single characters
RemoveChars(s, S) == SelectSeq(s, LAMBDA c : c \notin S)

\* the value of a string of decimal digits
RECURSIVE DigitsValue(_)
DigitsValue(s) ==
    IF s = <<>> THEN 0
    ELSE DigitsValue(SubSeq(s, 1, Len(s) - 1)) * 10 + DigitVal(s[Len(s)])

\* int(s): defined on non-empty digit strings, ValueError otherwise
IntOk(s) == s # <<>> /\ AllIn(s, Digits)

\* Python values that meet in one container are tagged with their type
PyInt(n) == [t |-> "int", v |-> n]
PyStr(s) == [t |-> "str", v |-> s]
PyEq(a, b) == a.t = b.t /\ a.v = b.v

\* the cell ESPN renders when no salary is published
Nbsp == <<"&", "n", "b", "s", "p", ";">>

\* the value the summary script stores for such a cell
NotReported == PyStr(<<"N", "o", "t", " ", "R", "e", "p", "o", "r", "t", "e", "d">>)

RECURSIVE SumSeq(_)
SumSeq(s) == IF s = <<>> THEN 0 ELSE Head(s) + SumSeq(Tail(s))

\* every sequence over S of length at most n
SeqsUpTo(S, n) == UNION {[1..k -> S] : k \in 0..n}

\* dict(pairs): the value of the last pair with every key.  The entries are
\* listed in order of first insertion, which is the iteration order of a dict
\* of Python 3.7+ (scrape_nba_statistics.py); for a dict of Python 2 see
\* HashOrders
RECURSIVE DictOf(_)
DictOf(pairs) ==
    IF pairs = <<>> THEN <<>>
    ELSE LET front == DictOf(SubSeq(pairs, 1, Len(pairs) - 1))
             p     == pairs[Len(pairs)]
         IN  IF \E i \in 1..Len(front) : front[i][1] = p[1]
             THEN [i \in 1..Len(front) |->
                      IF front[i][1] = p[1] THEN p ELSE front[i]]
             ELSE Append(front, p)

Keys(d) == [i \in 1..Len(d) |-> d[i][1]]
Values(d) == [i \in 1..Len(d) |-> d[i][2]]
Range(s) == {s[i] : i \in 1..Len(s)}

\* list.sort() / sorted(): stable, ascending.  The argument is a sequence of
\* <<key, item>> pairs with integer keys; the result is sorted by key
RECURSIVE InsertByKey(_, _)
InsertByKey(sorted, p) ==
    IF sorted = <<>> THEN <<p>>
    ELSE IF sorted[Len(sorted)][1] <= p[1] THEN Append(sorted, p)
         ELSE Append(InsertByKey(SubSeq(sorted, 1, Len(sorted) - 1), p),
                     sorted[Len(sorted)])

RECURSIVE SortByKey(_)
SortByKey(ps) ==
    IF ps = <<>> THEN <<>>
    ELSE InsertByKey(SortByKey(SubSeq(ps, 1, Len(ps) - 1)), ps[Len(ps)])

\* sorted(xs) for a list of integers
Sorted(xs) == Values(SortByKey([i \in 1..Len(xs) |-> <<xs[i], xs[i]>>]))

\* every list that holds each element of the finite set S once
Orderings(S) ==
    {s \in [1..Cardinality(S) -> S] :
        \A i, j \in 1..Cardinality(S) : i # j => s[i] # s[j]}

\* the orders in which a dict of Python 2 with the entries of d can iterate:
\* the order follows the hashes of the keys in the build that runs the script
\* and is unspecified by the language, so every order is possible
HashOrders(d) ==
    {[i \in 1..Len(d) |-> d[p[i]]] : p \in Orderings(1..Len(d))}

----------------------------------------------------------------------------
(* The environment: what the pages fetched by the scripts can hold *)

\* anchors of the directory page: <<team slug, team name fragment>>
TeamLinks == {<<<<"b", "o", "s">>, <<"c", "e", "l", "t", "i", "c", "s">>>>,
              <<<<"l", "a", "l">>, <<"l", "a", "k", "e", "r", "s">>>>}

DirectoryPages == SeqsUpTo(TeamLinks, MaxTeams)

\* display names of player entries: three that the name pattern accepts and a
\* hyphenated one that it does not
PlayerNames == {<<"A", " ", "B">>, <<"C", " ", "D">>, <<"H", "_", "1", " ", "J">>,
                <<"E", "-", "F", " ", "G">>}

\* salary cells of the HTML roster table read by the summary script
SalaryCells == {<<"$", "1">>, <<"$", "2">>, <<"$", "1", ",", "0", "0", "0">>, Nbsp}

\* roster pages of the summary script: the table rows, as name and salary cell
SalaryRosterPages ==
    SeqsUpTo([name : PlayerNames, salary : SalaryCells], MaxPlayers)

\* the value pandas stores where a record has no such key
NaN == [t |-> "nan", v |-> <<>>]

\* the player objects that the embedded JSON of a roster page can hold: name,
\* numeric identifier (a string in the JSON) and salary attribute (a published
\* amount, the placeholder, or NaN for an object with no salary key).  Two of
\* them share a display name, and one has a name the name pattern rejects
PlayerObjects ==
    {[name |-> <<"A", " ", "B">>, id |-> <<"1">>,
      salary |-> PyStr(<<"$", "1", ",", "0", "0", "0">>)],
     [name |-> <<"A", " ", "B">>, id |-> <<"2">>,
      salary |-> PyStr(<<"$", "2", ",", "0", "0", "0">>)],
     [name |-> <<"C", " ", "D">>, id |-> <<"3">>, salary |-> PyStr(Nbsp)],
     [name |-> <<"C", " ", "D">>, id |-> <<"3">>, salary |-> NaN],
     [name |-> <<"E", "-", "F", " ", "G">>, id |-> <<"4">>,
      salary |-> PyStr(<<"$", "3", ",", "0", "0", "0">>)]}

\* roster pages of the export script
RosterPages == SeqsUpTo(PlayerObjects, MaxPlayers)

Quoted(tok) == <<"\"">> \o tok \o <<"\"">>

\* the text of a career record as the statistics page holds it: the tokens,
\* each in double quotes, separated by commas
RECURSIVE RecordText(_)
RecordText(toks) ==
    IF toks = <<>> THEN <<>>
    ELSE IF Len(toks) = 1 THEN Quoted(toks[1])
         ELSE Quoted(Head(toks)) \o <<",">> \o RecordText(Tail(toks))

\* GP GS MIN FG FG% 3PT 3P% FT FT% OR DR REB AST BLK STL PF TO PTS
CareerTokensA ==
    << <<"8", "2">>, <<"8", "2">>, <<"3", "5", ".", "1">>,
       <<"9", ".", "2", "-", "1", "8", ".", "0">>, <<"5", "1", ".", "1">>,
       <<"1", "-", "2">>, <<"5", "0">>, <<"3", "-", "4">>, <<"7", "5">>,
       <<"1">>, <<"2">>, <<"3">>, <<"4">>, <<"5">>, <<"6">>, <<"7">>,
       <<"8">>, <<"9">> >>

\* a record with one token that holds two hyphens
CareerTokensB ==
    << <<"1">>, <<"0">>, <<".", "5">>, <<"1", "-", "2", "-", "3">>, <<"4">>,
       <<"5">>, <<"6">>, <<"7">>, <<"8">>, <<"9">>, <<"1">>, <<"2">>, <<"3">>,
       <<"4">>, <<"5">>, <<"6">>, <<"7">>, <<"8">>, <<"9">> >>

\* the example of the specification: six values
CareerTokensShort ==
    << <<"8", "2">>, <<"8", "2">>, <<"3", "5", ".", "1">>,
       <<"9", ".", "2", "-", "1", "8", ".", "0">>, <<"5", "1", ".", "1">> >>

\* as many values as the schema has names, one of them no number
CareerTokensBad ==
    [i \in 1..Len(CareerTokensA) |->
        IF i = 2 THEN <<"N", "/", "A">> ELSE CareerTokensA[i]]

\* what re.findall of the career pattern returns for a statistics page
StatsPages ==
    {<<>>, <<RecordText(CareerTokensA)>>, <<RecordText(CareerTokensB)>>,
     <<RecordText(CareerTokensShort)>>, <<RecordText(CareerTokensBad)>>,
     <<RecordText(CareerTokensB), RecordText(CareerTokensShort)>>}

\* the outcomes of a urlopen call: it raises, or returns one of the pages
Responses(pages) ==
    {[ok |-> FALSE, page |-> <<>>]} \cup {[ok |-> TRUE, page |-> p] : p \in pages}

----------------------------------------------------------------------------
(* scrape_nba_salaries.py *)

\* the roster url built for one entry of teams
RosterUrl(slug, name) == <<slug, name>>

\* build_team_url(), after the directory page was read: teams is the dict of
\* the anchors, the result maps every team name to its roster url.  Both are
\* dicts of Python 2, so the operator gives every dict, as the list of its
\* entries in iteration order, that the call can return
build_team_url(words) ==
    UNION {LET roster_urls == [i \in 1..Len(teams) |->
                                  RosterUrl(teams[i][1], teams[i][2])]
           IN  HashOrders(DictOf([i \in 1..Len(teams) |->
                                     <<teams[i][2], roster_urls[i]>>]))
           : teams \in HashOrders(DictOf(words))}

\* re.findall of the salary pattern: the <<name, salary cell>> of every table
\* row whose link text matches (\w+\s\w+)
SalaryFindall(stats) ==
    LET rows == SelectSeq(stats, LAMBDA e : NameRegex(e.name))
    IN  [i \in 1..Len(rows) |-> <<rows[i].name, rows[i].salary>>]

\* dict(...) of Python 2 as a function: the last value given for every key
PyDict(pairs) ==
    [k \in {pairs[i][1] : i \in 1..Len(pairs)} |->
        LET last == CHOOSE i \in 1..Len(pairs) :
                        /\ pairs[i][1] = k
                        /\ \A j \in (i + 1)..Len(pairs) : pairs[j][1] # k
        IN  pairs[last][2]]

\* line 42: player_salaries as first assigned
player_salaries_of(stats) == PyDict(SalaryFindall(stats))

\* lines 33-42 for the environment: a fetch that raises, or player_salaries
\* for one of the roster pages
RosterFetches ==
    {[ok |-> FALSE, player_salaries |-> <<>>]} \cup
    {[ok |-> TRUE, player_salaries |-> player_salaries_of(p)] : p \in SalaryRosterPages}

\* lines 46-49: the value stored for one salary cell; int() raises on what is
\* left of a cell that holds no digits
SalaryCellOk(cell) == cell = Nbsp \/ IntOk(RemoveChars(cell, {",", "$"}))

NormaliseSalaryCell(cell) ==
    IF cell = Nbsp THEN NotReported
    ELSE PyInt(DigitsValue(RemoveChars(cell, {",", "$"})))

\* lines 44-50: player_salaries after the loop over its keys
NormalisedSalaries(raw) == [k \in DOMAIN raw |-> NormaliseSalaryCell(raw[k])]

\* lines 44-50: the list salaries after the loop over player_salaries.keys(),
\* for every order in which the dict can iterate
SalariesOf(player_salaries) ==
    {LET ks == SelectSeq(keys, LAMBDA k : player_salaries[k].t = "int")
     IN  [i \in 1..Len(ks) |-> player_salaries[ks[i]].v]
     : keys \in Orderings(DOMAIN player_salaries)}

\* find_key(dic, val): the first key, in the iteration order of dic, whose
\* value equals val.  That order is unspecified in Python 2, so the operator
\* gives every key the call can return
find_key(dic, val) == {k \in DOMAIN dic : PyEq(dic[k], PyInt(val))}

\* line 54: sum(salaries)/len(salaries) on integers (Python 2: floor division)
AverageOf(salaries) == SumSeq(salaries) \div Len(salaries)

\* dict(zip(keys, values)) as a function
ZipDict(ks, vs) ==
    LET n == IF Len(ks) < Len(vs) THEN Len(ks) ELSE Len(vs)
    IN  PyDict([i \in 1..n |-> <<ks[i], vs[i]>>])

\* lines 57-60: the lines of the first report
AverageReport(averages, teams) ==
    LET team_with_salary == ZipDict(averages, teams)
        sorted           == Sorted(averages)
    IN  [i \in 1..Len(sorted) |-> <<team_with_salary[sorted[i]], sorted[i]>>]

\* lines 62-66: the lines of the second report
HighestReport(highest, teams) ==
    LET team_with_highest == ZipDict(highest, teams)
        sorted == Values(SortByKey([i \in 1..Len(highest) |->
                                       <<highest[i][2], highest[i]>>]))
    IN  [i \in 1..Len(sorted) |-> <<team_with_highest[sorted[i]], sorted[i]>>]

Fetched(stage, ok) == Append(fetch_log, [stage |-> stage, ok |-> ok])

Produced(name) == Append(outputs, [name |-> name, after |-> Len(fetch_log)])

\* an uncaught exception ends the run
Crash(why) == pc' = "crashed" /\ fault' = why

\* line 69 and lines 6-18
BuildTeamUrl ==
    /\ script = "summary" /\ pc = "start"
    /\ \E f \in Responses(DirectoryPages) :
          IF ~f.ok
          THEN /\ Crash("IOError")
               /\ fetch_log' = Fetched("directory", FALSE)
               /\ UNCHANGED rosters
          ELSE /\ rosters' \in build_team_url(f.page)
               /\ fetch_log' = Fetched("directory", TRUE)
               /\ pc' = "rosters"
               /\ UNCHANGED fault
    /\ UNCHANGED <<script, url, roster_records, idx, salary_dicts, average_team_salaries,
                   highest_salary_per_team, report1, report2, all_players,
                   all_players_df, player_source, career_stats_df, all_stats_df,
                   notes, stat_log, outputs>>

\* lines 32-54: one iteration of the loop over rosters.values()
CalculateRoster ==
    /\ script = "summary" /\ pc = "rosters" /\ idx < Len(rosters)
    /\ \E f \in RosterFetches :
          IF ~f.ok
          THEN /\ Crash("IOError")
               /\ fetch_log' = Fetched("roster", FALSE)
               /\ UNCHANGED <<idx, salary_dicts, average_team_salaries,
                              highest_salary_per_team>>
          ELSE LET raw == f.player_salaries IN
               /\ fetch_log' = Fetched("roster", TRUE)
               /\ IF \E k \in DOMAIN raw : ~SalaryCellOk(raw[k])
                  THEN /\ Crash("ValueError")
                       /\ UNCHANGED <<idx, salary_dicts, average_team_salaries,
                                      highest_salary_per_team>>
                  ELSE LET player_salaries == NormalisedSalaries(raw) IN
                       \E salaries \in SalariesOf(player_salaries) :
                       /\ salary_dicts' = Append(salary_dicts, player_salaries)
                       /\ IF salaries = <<>>
                          THEN \* sorted(salaries)[-1] on an empty list
                               /\ Crash("IndexError")
                               /\ UNCHANGED <<idx, average_team_salaries,
                                              highest_salary_per_team>>
                          ELSE LET top == Sorted(salaries)[Len(salaries)] IN
                               /\ \E k \in find_key(player_salaries, top) :
                                     highest_salary_per_team' =
                                         Append(highest_salary_per_team, <<k, top>>)
                               /\ average_team_salaries' =
                                     Append(average_team_salaries, AverageOf(salaries))
                               /\ idx' = idx + 1
                               /\ UNCHANGED <<pc, fault>>
    /\ UNCHANGED <<script, url, roster_records, rosters, report1, report2, all_players,
                   all_players_df, player_source, career_stats_df, all_stats_df,
                   notes, stat_log, outputs>>

\* lines 55-66: both reports
PrintReports ==
    /\ script = "summary" /\ pc = "rosters" /\ idx = Len(rosters)
    /\ report1' = AverageReport(average_team_salaries, Keys(rosters))
    /\ average_team_salaries' = Sorted(average_team_salaries)
    /\ report2' = HighestReport(highest_salary_per_team, Keys(rosters))
    /\ highest_salary_per_team' =
           Values(SortByKey([i \in 1..Len(highest_salary_per_team) |->
               <<highest_salary_per_team[i][2], highest_salary_per_team[i]>>]))
    /\ outputs' = Append(Produced("average report"),
                         [name |-> "highest report", after |-> Len(fetch_log)])
    /\ pc' = "done"
    /\ UNCHANGED <<script, url, roster_records, fault, rosters, idx, salary_dicts, all_players,
                   all_players_df, player_source, career_stats_df, all_stats_df,
                   notes, stat_log, fetch_log>>

----------------------------------------------------------------------------
(* scrape_nba_statistics.py *)

\* the columns of career_stats_df
CareerColumns ==
    <<"GP", "GS", "MIN", "FGM", "FGA", "FG%", "3PTM", "3PTA", "3P%", "FTM",
      "FTA", "FT%", "OR", "DR", "REB", "AST", "BLK", "STL", "PF", "TO", "PTS">>

\* build_team_urls(), after the directory page was read
build_team_urls(teams_source) ==
    LET teams       == DictOf(teams_source)
        roster_urls == [i \in 1..Len(teams) |-> RosterUrl(teams[i][1], teams[i][2])]
    IN  DictOf([i \in 1..Len(teams) |-> <<teams[i][2], roster_urls[i]>>])

\* get_player_info(), after the roster page was read: a dict from the name of
\* every player object whose name matches (\w+\s\w+) to its other attributes
get_player_info(roster_source) ==
    LET player_info == SelectSeq(roster_source, LAMBDA e : NameRegex(e.name))
    IN  DictOf([i \in 1..Len(player_info) |->
                  <<player_info[i].name,
                    [id |-> player_info[i].id, salary |-> player_info[i].salary]>>])

\* the distinct player records of a roster page, each known by its display
\* name and numeric identifier
PlayerRecords(roster_source) ==
    {<<roster_source[i].name, roster_source[i].id>> : i \in 1..Len(roster_source)}

\* lines 43-46: the rows of all_players_df, team after team
RECURSIVE PlayersDf(_)
PlayersDf(players) ==
    IF players = <<>> THEN <<>>
    ELSE LET team    == players[Len(players)][1]
             dic     == players[Len(players)][2]
             team_df == [i \in 1..Len(dic) |->
                            [index |-> dic[i][1], id |-> dic[i][2].id,
                             salary |-> dic[i][2].salary, team |-> team]]
         IN  PlayersDf(SubSeq(players, 1, Len(players) - 1)) \o team_df

\* all_players_df.loc[player_index]['id']: the id of the row with that label,
\* or the ids of all the rows with that label when there are several
LocId(df, player_index) ==
    LET rows == SelectSeq(df, LAMBDA r : r.index = player_index)
    IN  [i \in 1..Len(rows) |-> rows[i].id]

\* line 54: the outcomes of urlopen(url).  The url of a label that several
\* rows have is built from the text of a Series, which holds blanks and line
\* breaks: urlopen raises InvalidURL on it and no page is read
StatsResponses(id) ==
    IF Len(id) = 1 THEN Responses(StatsPages) ELSE {[ok |-> FALSE, page |-> <<>>]}

UrlFault(id) == IF Len(id) = 1 THEN "URLError" ELSE "InvalidURL"

\* str.split(sep) for a separator of one character
Split(s, c) ==
    LET seps   == {i \in 1..Len(s) : s[i] = c}
        n      == Cardinality(seps)
        pos(k) == IF k = 0 THEN 0
                  ELSE IF k = n + 1 THEN Len(s) + 1
                  ELSE CHOOSE i \in seps : Cardinality({j \in seps : j < i}) = k - 1
    IN  [k \in 1..(n + 1) |-> SubSeq(s, pos(k - 1) + 1, pos(k) - 1)]

\* list(chain.from_iterable(lists))
RECURSIVE Chain(_)
Chain(lists) == IF lists = <<>> THEN <<>> ELSE Head(lists) \o Chain(Tail(lists))

\* float(s) on the characters the records use: digits with at most one point
\* and at least one digit; anything else raises ValueError
FloatOk(s) ==
    /\ AllIn(s, Digits \cup {"."})
    /\ Cardinality({i \in 1..Len(s) : s[i] = "."}) <= 1
    /\ \E i \in 1..Len(s) : s[i] \in Digits

\* a decimal number as mantissa and count of decimal places, trailing zeros dropped
RECURSIVE Decimal(_, _)
Decimal(m, e) ==
    IF e > 0 /\ m % 10 = 0 THEN Decimal(m \div 10, e - 1) ELSE [m |-> m, e |-> e]

\* float(s) where FloatOk(s)
Float(s) ==
    LET parts == Split(s, ".")
        frac  == IF Len(parts) = 2 THEN parts[2] ELSE <<>>
    IN  Decimal(DigitsValue(parts[1] \o frac), Len(frac))

\* lines 62-63: the tokens of the first career record
CareerTokens(career_info) ==
    LET commas == Split(RemoveChars(career_info[1], {"\""}), ",")
    IN  Chain([i \in 1..Len(commas) |-> Split(commas[i], "-")])

\* the try block with no check of the values against the 21 columns
CareerParsesAnyLength(career_info) ==
    /\ career_info # <<>>
    /\ \A i \in 1..Len(CareerTokens(career_info)) :
          FloatOk(CareerTokens(career_info)[i])

\* lines 60-66: TRUE when the try block completes: a record was found, every
\* token converts, and pd.Series accepts the values for the 21 columns
CareerParses(career_info) ==
    /\ career_info # <<>>
    /\ LET toks == CareerTokens(career_info)
       IN  /\ \A i \in 1..Len(toks) : FloatOk(toks[i])
           /\ Len(toks) = Len(CareerColumns)

\* line 64: the values of the row
CareerValues(career_info) ==
    LET toks == CareerTokens(career_info)
    IN  [i \in 1..Len(toks) |-> Float(toks[i])]

\* lines 59-66 for every page of the environment: whether the try block
\* completes, and the values of the row it appends
CareerResult ==
    [p \in StatsPages |->
        IF CareerParses(p) THEN [parsed |-> TRUE, values |-> CareerValues(p)]
        ELSE [parsed |-> FALSE, values |-> <<>>]]

\* line 72: all_players_df.join(career_stats_df), a left join on the index
RECURSIVE Join(_, _)
Join(left, right) ==
    IF left = <<>> THEN <<>>
    ELSE LET l       == left[Len(left)]
             matches == SelectSeq(right, LAMBDA r : r.index = l.index)
             row(st) == [index |-> l.index, id |-> l.id, salary |-> l.salary,
                         team |-> l.team, stats |-> st]
         IN  Join(SubSeq(left, 1, Len(left) - 1), right) \o
             (IF matches = <<>> THEN <<row(<<>>)>>
              ELSE [i \in 1..Len(matches) |-> row(matches[i].values)])

\* line 80: re.sub(r'[^\d.]+', '', s)
KeepDigitsAndPoints(s) == SelectSeq(s, LAMBDA c : c \in Digits \cup {"."})

\* line 80, one value of the salary column
CleanSalaryOk(s) == s.t # "str" \/ IntOk(KeepDigitsAndPoints(s.v))

CleanSalary(s) ==
    IF s.t = "str" THEN PyInt(DigitsValue(KeepDigitsAndPoints(s.v))) ELSE s

\* lines 24-32 for the environment: a fetch that raises, or player_dict for one
\* of the roster pages
PlayerInfoFetches ==
    {[ok |-> FALSE, player_dict |-> <<>>, records |-> {}]} \cup
    {[ok |-> TRUE, player_dict |-> get_player_info(p), records |-> PlayerRecords(p)] :
        p \in RosterPages}

\* line 35 and lines 9-20
BuildTeamUrls ==
    /\ script = "export" /\ pc = "start"
    /\ \E f \in Responses(DirectoryPages) :
          IF ~f.ok
          THEN /\ Crash("URLError")
               /\ fetch_log' = Fetched("directory", FALSE)
               /\ UNCHANGED rosters
          ELSE /\ rosters' = build_team_urls(f.page)
               /\ fetch_log' = Fetched("directory", TRUE)
               /\ pc' = "players"
               /\ UNCHANGED fault
    /\ UNCHANGED <<script, url, roster_records, idx, salary_dicts, average_team_salaries,
                   highest_salary_per_team, report1, report2, all_players,
                   all_players_df, player_source, career_stats_df, all_stats_df,
                   notes, stat_log, outputs>>

\* lines 37-39 and 23-32: one iteration of the loop over rosters.keys()
GetPlayerInfo ==
    /\ script = "export" /\ pc = "players" /\ idx < Len(rosters)
    /\ \E f \in PlayerInfoFetches :
          IF ~f.ok
          THEN /\ Crash("URLError")
               /\ fetch_log' = Fetched("roster", FALSE)
               /\ UNCHANGED <<idx, all_players, roster_records>>
          ELSE /\ all_players' =
                     Append(all_players, <<rosters[idx + 1][1], f.player_dict>>)
               /\ roster_records' = f.records
               /\ fetch_log' = Fetched("roster", TRUE)
               /\ idx' = idx + 1
               /\ UNCHANGED <<pc, fault>>
    /\ UNCHANGED <<script, url, rosters, salary_dicts, average_team_salaries,
                   highest_salary_per_team, report1, report2, all_players_df,
                   player_source, career_stats_df, all_stats_df, notes, stat_log,
                   outputs>>

\* lines 42-47: the player/team table and its file
WritePlayers ==
    /\ script = "export" /\ pc = "players" /\ idx = Len(rosters)
    /\ all_players_df' = PlayersDf(all_players)
    /\ outputs' = Produced("NBA_roster_info_all_players.csv")
    /\ pc' = "career"
    /\ idx' = 0
    /\ roster_records' = {}
    /\ UNCHANGED <<script, url, fault, rosters, salary_dicts, average_team_salaries,
                   highest_salary_per_team, report1, report2, all_players,
                   player_source, career_stats_df, all_stats_df, notes, stat_log,
                   fetch_log>>

\* the iteration with the fetch moved inside the try block: a fetch that
\* raises is handled like a record that does not parse
CareerStatsFetchInTry ==
    /\ script = "export" /\ pc = "career" /\ idx < Len(all_players_df)
    /\ LET player_index == all_players_df[idx + 1].index
           id           == LocId(all_players_df, player_index)
       IN  \E f \in StatsResponses(id) :
              /\ url' = id
              /\ fetch_log' = Fetched("stats", f.ok)
              /\ player_source' = f.page
              /\ IF f.ok /\ CareerResult[f.page].parsed
                 THEN /\ career_stats_df' =
                            Append(career_stats_df,
                                   [index  |-> player_index,
                                    values |-> CareerResult[f.page].values])
                      /\ UNCHANGED notes
                 ELSE /\ notes' = Append(notes, player_index)
                      /\ UNCHANGED career_stats_df
              /\ stat_log' = Append(stat_log,
                                    [name |-> player_index, url |-> id,
                                     parsed |-> f.ok /\ CareerResult[f.page].parsed])
              /\ idx' = idx + 1
              /\ UNCHANGED <<pc, fault>>
    /\ UNCHANGED <<script, roster_records, rosters, salary_dicts,
                   average_team_salaries, highest_salary_per_team, report1,
                   report2, all_players, all_players_df, all_stats_df, outputs>>

\* the iteration without the try block: a record that does not parse ends
\* the run
CareerStatsNoTry ==
    /\ script = "export" /\ pc = "career" /\ idx < Len(all_players_df)
    /\ LET player_index == all_players_df[idx + 1].index
           id           == LocId(all_players_df, player_index)
       IN  \E f \in StatsResponses(id) :
              /\ url' = id
              /\ IF ~f.ok
                 THEN /\ Crash(UrlFault(id))
                      /\ fetch_log' = Fetched("stats", FALSE)
                      /\ UNCHANGED <<idx, player_source, career_stats_df, notes,
                                     stat_log>>
                 ELSE /\ fetch_log' = Fetched("stats", TRUE)
                      /\ player_source' = f.page
                      /\ IF CareerResult[f.page].parsed
                         THEN /\ career_stats_df' =
                                    Append(career_stats_df,
                                           [index  |-> player_index,
                                            values |-> CareerResult[f.page].values])
                              /\ stat_log' = Append(stat_log,
                                                    [name |-> player_index, url |-> id,
                                                     parsed |-> TRUE])
                              /\ idx' = idx + 1
                              /\ UNCHANGED <<pc, fault>>
                         ELSE /\ Crash("ValueError")
                              /\ UNCHANGED <<idx, career_stats_df, stat_log>>
                      /\ UNCHANGED notes
    /\ UNCHANGED <<script, roster_records, rosters, salary_dicts,
                   average_team_salaries, highest_salary_per_team, report1,
                   report2, all_players, all_players_df, all_stats_df, outputs>>

\* lines 52-68: one iteration of the loop over all_players_df.index
CareerStats ==
    /\ script = "export" /\ pc = "career" /\ idx < Len(all_players_df)
    /\ LET player_index == all_players_df[idx + 1].index
           id           == LocId(all_players_df, player_index)
       IN  \E f \in StatsResponses(id) :
              /\ url' = id
              /\ IF ~f.ok
                 THEN /\ Crash(UrlFault(id))
                      /\ fetch_log' = Fetched("stats", FALSE)
                      /\ UNCHANGED <<idx, player_source, career_stats_df, notes,
                                     stat_log>>
                 ELSE /\ fetch_log' = Fetched("stats", TRUE)
                      /\ player_source' = f.page
                      /\ IF CareerResult[f.page].parsed
                         THEN /\ career_stats_df' =
                                    Append(career_stats_df,
                                           [index  |-> player_index,
                                            values |-> CareerResult[f.page].values])
                              /\ UNCHANGED notes
                         ELSE /\ notes' = Append(notes, player_index)
                              /\ UNCHANGED career_stats_df
                      /\ stat_log' = Append(stat_log,
                                            [name |-> player_index, url |-> id,
                                             parsed |-> CareerResult[f.page].parsed])
                      /\ idx' = idx + 1
                      /\ UNCHANGED <<pc, fault>>
    /\ UNCHANGED <<script, roster_records, rosters, salary_dicts, average_team_salaries,
                   highest_salary_per_team, report1, report2, all_players,
                   all_players_df, all_stats_df, outputs>>

\* lines 69-82: the career-stat file, the join, the cleaning, the joined file.
\* Every player object is taken to hold a well-formed height and weight, so
\* lines 78-79 raise only when the table has no such column at all
JoinAndClean ==
    /\ script = "export" /\ pc = "career" /\ idx = Len(all_players_df)
    /\ LET joined == Join(all_players_df, career_stats_df)
           career == Produced("NBA_player_career_stats_all_players.csv")
       IN  IF joined = <<>>
           THEN /\ Crash("KeyError")          \* all_stats_df['height']
                /\ all_stats_df' = joined
                /\ outputs' = career
           ELSE IF \A i \in 1..Len(joined) : joined[i].salary = NaN
           THEN /\ Crash("KeyError")          \* all_stats_df['salary']
                /\ all_stats_df' = joined
                /\ outputs' = career
           ELSE IF \E i \in 1..Len(joined) : ~CleanSalaryOk(joined[i].salary)
           THEN /\ Crash("ValueError")        \* int('')
                /\ all_stats_df' = joined
                /\ outputs' = career
           ELSE /\ all_stats_df' =
                      [i \in 1..Len(joined) |->
                          [joined[i] EXCEPT !.salary = CleanSalary(@)]]
                /\ outputs' = Append(career,
                       [name  |-> "NBA_player_info_and_stats_joined_clean.csv",
                        after |-> Len(fetch_log)])
                /\ pc' = "done"
                /\ UNCHANGED fault
    /\ UNCHANGED <<script, url, roster_records, rosters, idx, salary_dicts, average_team_salaries,
                   highest_salary_per_team, report1, report2, all_players,
                   all_players_df, player_source, career_stats_df, notes,
                   stat_log, fetch_log>>

----------------------------------------------------------------------------

Init ==
    /\ script \in {"summary", "export"}
    /\ pc = "start"
    /\ fault = "none"
    /\ rosters = <<>>
    /\ idx = 0
    /\ salary_dicts = <<>>
    /\ average_team_salaries = <<>>
    /\ highest_salary_per_team = <<>>
    /\ report1 = <<>>
    /\ report2 = <<>>
    /\ all_players = <<>>
    /\ all_players_df = <<>>
    /\ roster_records = {}
    /\ url = <<>>
    /\ player_source = <<>>
    /\ career_stats_df = <<>>
    /\ all_stats_df = <<>>
    /\ notes = <<>>
    /\ stat_log = <<>>
    /\ fetch_log = <<>>
    /\ outputs = <<>>

Next ==
    \/ BuildTeamUrl
    \/ CalculateRoster
    \/ PrintReports
    \/ BuildTeamUrls
    \/ GetPlayerInfo
    \/ WritePlayers
    \/ CareerStats
    \/ JoinAndClean

Spec == Init /\ [][Next]_vars

----------------------------------------------------------------------------
(* Vocabulary of the properties *)

Teams == Keys(rosters)

\* the position of a team in rosters
TeamPos(t) == CHOOSE i \in 1..Len(rosters) : rosters[i][1] = t

\* the disclosed salaries of the i-th roster processed by the summary script
Disclosed(i) ==
    {k \in DOMAIN salary_dicts[i] : salary_dicts[i][k].t = "int"}

DisclosedSum(i) == SumSeq(CHOOSE salaries \in SalariesOf(salary_dicts[i]) : TRUE)

Lines(report, t) == {i \in 1..Len(report) : report[i][1] = t}

Dec(m, e) == [m |-> m, e |-> e]

\* the numbers that the tokens of CareerTokensA denote, in their order
ValuesA ==
    <<Dec(82, 0), Dec(82, 0), Dec(351, 1), Dec(92, 1), Dec(18, 0), Dec(511, 1),
      Dec(1, 0), Dec(2, 0), Dec(50, 0), Dec(3, 0), Dec(4, 0), Dec(75, 0),
      Dec(1, 0), Dec(2, 0), Dec(3, 0), Dec(4, 0), Dec(5, 0), Dec(6, 0),
      Dec(7, 0), Dec(8, 0), Dec(9, 0)>>

\* the numbers that the tokens of CareerTokensB denote, in their order
ValuesB ==
    <<Dec(1, 0), Dec(0, 0), Dec(5, 1), Dec(1, 0), Dec(2, 0), Dec(3, 0),
      Dec(4, 0), Dec(5, 0), Dec(6, 0), Dec(7, 0), Dec(8, 0), Dec(9, 0),
      Dec(1, 0), Dec(2, 0), Dec(3, 0), Dec(4, 0), Dec(5, 0), Dec(6, 0),
      Dec(7, 0), Dec(8, 0), Dec(9, 0)>>

\* the pages whose first career record holds 21 numeric fields
WellFormedPages ==
    {<<RecordText(CareerTokensA)>>, <<RecordText(CareerTokensB)>>,
     <<RecordText(CareerTokensB), RecordText(CareerTokensShort)>>}

\* the entries of s that satisfy Test, in their order
Where(s, Test(_)) == SelectSeq(s, Test)

LastOf(s) == s[Len(s)]

\* no two rows of the player/team table have the same numeric identifier
DistinctIdentifiers ==
    \A i, j \in 1..Len(all_players_df) :
        all_players_df[i].id = all_players_df[j].id => i = j

\* the number of urlopen calls made for statistics pages so far: the last url
\* was built for the player row of that number
StatsFetches ==
    Cardinality({i \in 1..Len(fetch_log) : fetch_log[i].stage = "stats"})

\* a token split into two at its first hyphen, as the specification words it
SplitInTwo(s) ==
    IF "-" \notin Range(s) THEN <<s>>
    ELSE LET k == CHOOSE i \in 1..Len(s) :
                      s[i] = "-" /\ \A j \in 1..(i - 1) : s[j] # "-"
         IN  <<SubSeq(s, 1, k - 1), SubSeq(s, k + 1, Len(s))>>

\* the tokens of the first career record when every token with a hyphen is
\* split into two
TokensInTwo(career_info) ==
    LET commas == Split(RemoveChars(career_info[1], {"\""}), ",")
    IN  Chain([i \in 1..Len(commas) |-> SplitInTwo(commas[i])])

\* the record is stored when hyphenated tokens are split into two: every
\* token is a number and there are 21 of them
StoredInTwo(career_info) ==
    /\ career_info # <<>>
    /\ \A i \in 1..Len(TokensInTwo(career_info)) :
          FloatOk(TokensInTwo(career_info)[i])
    /\ Len(TokensInTwo(career_info)) = Len(CareerColumns)

----------------------------------------------------------------------------
(* C1 *)

\* C1: in summary mode a team with no disclosed salary raises no fault while
\* its mean and maximum are computed, is left out of both reports, and the
\* reports of the other teams are printed.
C1_UndisclosedTeamIsSkipped ==
    script = "summary" =>
        \A i \in 1..Len(salary_dicts) :
            Disclosed(i) = {} =>
                /\ fault \notin {"IndexError", "ZeroDivisionError"}
                /\ pc = "done" =>
                      /\ Lines(report1, Teams[i]) = {}
                      /\ Lines(report2, Teams[i]) = {}
                      /\ \A j \in 1..Len(salary_dicts) :
                            Disclosed(j) # {} =>
                                /\ Lines(report1, Teams[j]) # {}
                                /\ Lines(report2, Teams[j]) # {}

----------------------------------------------------------------------------
(* C2 *)

\* C2: in export mode a statistics page that was fetched but holds no career
\* record of 21 numeric fields adds no row and adds a note naming the player,
\* and the loop goes on: a run ends inside the loop only by a fetch that
\* raised; the rows of the career-stat table are, in order, the players whose
\* record parsed, and the notes the players whose record did not.
C2_UnparsedPlayersAreSkipped ==
    script = "export" =>
        /\ \A i \in 1..Len(stat_log) : stat_log[i].name = all_players_df[i].index
        /\ stat_log # <<>> =>
              (LastOf(stat_log).parsed <=> player_source \in WellFormedPages)
        /\ [i \in 1..Len(career_stats_df) |-> career_stats_df[i].index] =
               [i \in 1..Len(Where(stat_log, LAMBDA e : e.parsed)) |->
                   Where(stat_log, LAMBDA e : e.parsed)[i].name]
        /\ notes = [i \in 1..Len(Where(stat_log, LAMBDA e : ~e.parsed)) |->
                       Where(stat_log, LAMBDA e : ~e.parsed)[i].name]
        /\ (pc = "crashed" /\ Len(stat_log) < Len(all_players_df)) =>
               ~LastOf(fetch_log).ok
        /\ (pc = "done" \/ all_stats_df # <<>>) =>
               Len(stat_log) = Len(all_players_df)

\* a finished run in which a player with no parsable record was noted and a
\* later player got a row
C2_Witness ==
    /\ script = "export" /\ pc = "done"
    /\ \E i, j \in 1..Len(stat_log) :
          i < j /\ ~stat_log[i].parsed /\ stat_log[j].parsed
    /\ notes # <<>> /\ career_stats_df # <<>>

----------------------------------------------------------------------------
(* C3 *)

\* C3: the joined table is a left join from the player records, for every set
\* of rosters, also when two teams have a player of the same name: no run is
\* ended by the url built for a player row before the tables are joined, and
\* every row of the player/team table appears in the joined table exactly
\* once, in place, with the career values of that player when the player has
\* a career-stat row and with empty stat columns when not.  (Stated for the
\* runs in which no two player rows have the same identifier.)
C3_JoinIsLeftJoinOfPlayers ==
    (script = "export" /\ DistinctIdentifiers) =>
        /\ fault # "InvalidURL"
        /\ (pc = "done" \/ all_stats_df # <<>>) =>
              /\ Len(all_stats_df) = Len(all_players_df)
              /\ \A i \in 1..Len(all_players_df) :
                    /\ all_stats_df[i].index = all_players_df[i].index
                    /\ all_stats_df[i].id = all_players_df[i].id
                    /\ all_stats_df[i].team = all_players_df[i].team
                    /\ all_stats_df[i].stats # <<>> <=>
                          \E j \in 1..Len(stat_log) :
                              /\ stat_log[j].parsed
                              /\ all_players_df[j].id = all_players_df[i].id

----------------------------------------------------------------------------
(* C4 *)

\* C4: in both scripts a fetch that fails ends the run: it is the last fetch,
\* and every report or file produced was produced before it.  The fetch of a
\* statistics page is no exception, only the parsing of the page is guarded.
C4_FailedFetchEndsTheRun ==
    \A i \in 1..Len(fetch_log) :
        ~fetch_log[i].ok =>
            /\ i = Len(fetch_log)
            /\ pc = "crashed"
            /\ \A k \in 1..Len(outputs) : outputs[k].after < i

\* a statistics fetch failed after a page that did not parse had been skipped:
\* the player file exists, the other two files do not
C4_Witness ==
    /\ script = "export" /\ pc = "crashed"
    /\ fetch_log # <<>>
    /\ LastOf(fetch_log) = [stage |-> "stats", ok |-> FALSE]
    /\ notes # <<>>
    /\ Len(outputs) = 1

----------------------------------------------------------------------------
(* C5 *)

\* C5: the first report lists the teams by ascending mean disclosed salary and
\* the second by ascending maximum salary, and every line pairs a team with
\* its own metric: its mean (the sum of its disclosed salaries over their
\* number) in the first, one of its highest-paid players and that salary in
\* the second.
C5_ReportsSortedAndPaired ==
    (script = "summary" /\ pc = "done") =>
        /\ \A i, j \in 1..Len(report1) :
              i < j =>
                /\ report1[i][2] <= report1[j][2]
                /\ DisclosedSum(TeamPos(report1[i][1]))
                       * Cardinality(Disclosed(TeamPos(report1[j][1])))
                   <= DisclosedSum(TeamPos(report1[j][1]))
                       * Cardinality(Disclosed(TeamPos(report1[i][1])))
        /\ \A i \in 1..Len(report1) :
              LET t == TeamPos(report1[i][1])
                  n == Cardinality(Disclosed(t))
              IN  /\ n > 0
                  /\ report1[i][2] * n = DisclosedSum(t)
        /\ \A i, j \in 1..Len(report2) :
              i < j => report2[i][2][2] <= report2[j][2][2]
        /\ \A i \in 1..Len(report2) :
              LET t    == TeamPos(report2[i][1])
                  name == report2[i][2][1]
                  top  == report2[i][2][2]
              IN  /\ name \in Disclosed(t)
                  /\ salary_dicts[t][name].v = top
                  /\ \A k \in Disclosed(t) : salary_dicts[t][k].v <= top

----------------------------------------------------------------------------
(* C6 *)

\* C6: the dict that get_player_info returns has as many entries as the roster
\* page has distinct player records; two records of one page with the same
\* display name and different identifiers are both in it.  (Stated for the
\* pages on which every display name is of the shape the pattern accepts.)
C6_OnePlayerPerRecord ==
    (script = "export" /\ pc = "players" /\ idx > 0
        /\ \A r \in roster_records : NameRegex(r[1])) =>
        /\ Len(all_players[idx][2]) = Cardinality(roster_records)
        /\ \A r \in roster_records :
              \E k \in 1..Len(all_players[idx][2]) :
                  /\ all_players[idx][2][k][1] = r[1]
                  /\ all_players[idx][2][k][2].id = r[2]

----------------------------------------------------------------------------
(* C7 *)

\* C7: salary normalisation turns every published salary string into the
\* integer left when the currency symbol and the separators are removed and
\* turns the placeholder into the undisclosed value, never into a number, in
\* both scripts; an undisclosed salary enters neither the mean nor the maximum.
C7_SalariesNormalised ==
    /\ script = "summary" =>
          /\ fault # "ValueError"
          /\ \A i \in 1..Len(salary_dicts) : \A k \in DOMAIN salary_dicts[i] :
                IF salary_dicts[i][k].t = "int"
                THEN salary_dicts[i][k].v \in {1, 2, 1000}
                ELSE salary_dicts[i][k] = NotReported
          /\ \A i \in 1..Len(average_team_salaries) :
                average_team_salaries[i] \in 1..1000
    /\ script = "export" =>
          /\ fault # "ValueError"
          /\ pc = "done" =>
                \A i \in 1..Len(all_stats_df) :
                    IF all_stats_df[i].salary.t = "int"
                    THEN all_stats_df[i].salary.v \in {1000, 2000}
                    ELSE all_stats_df[i].salary = NaN

----------------------------------------------------------------------------
(* C8 *)

\* C8: the tokens of the career record, split at commas and at every hyphen
\* (a token with two hyphens gives three values) and converted to numbers in
\* their order, are stored as a row only when they fill the 21 columns
\* GP ... PTS: every stored row has 21 values, the i-th under the i-th name.
C8_StoredRowsFillTheColumns ==
    script = "export" =>
        /\ \A i \in 1..Len(career_stats_df) :
              DOMAIN career_stats_df[i].values = DOMAIN CareerColumns
        /\ (stat_log # <<>> /\ player_source = <<RecordText(CareerTokensA)>>) =>
              /\ LastOf(stat_log).parsed
              /\ LastOf(career_stats_df) =
                     [index |-> LastOf(stat_log).name, values |-> ValuesA]
        /\ (stat_log # <<>> /\ player_source # <<>>
                /\ player_source[1] = RecordText(CareerTokensB)) =>
              /\ LastOf(stat_log).parsed
              /\ LastOf(career_stats_df) =
                     [index |-> LastOf(stat_log).name, values |-> ValuesB]
        /\ (stat_log # <<>> /\ player_source \in
                {<<RecordText(CareerTokensShort)>>, <<RecordText(CareerTokensBad)>>}) =>
              ~LastOf(stat_log).parsed

\* a row was stored for a record of 19 tokens, one of them with two hyphens,
\* after a record of six values had been left out
C8_Witness ==
    /\ script = "export"
    /\ player_source = <<RecordText(CareerTokensB)>>
    /\ Len(stat_log) = 2 /\ ~stat_log[1].parsed /\ stat_log[2].parsed
    /\ Len(career_stats_df) = 1
    /\ career_stats_df[1].values[4] = Dec(1, 0)
    /\ career_stats_df[1].values[5] = Dec(2, 0)
    /\ career_stats_df[1].values[6] = Dec(3, 0)

\* C8 as first stated: every token containing a hyphen is split into two
\* tokens, and the record of the page read last was stored as a row exactly
\* when the tokens so obtained are 21 numbers.
C8_HyphenSplitsInTwo ==
    (script = "export" /\ stat_log # <<>>) =>
        (LastOf(stat_log).parsed <=> StoredInTwo(player_source))

----------------------------------------------------------------------------
(* C9 *)

\* C9: at every point of an export run each player row belongs to one team,
\* the url built for a player row, and so the statistics page fetched for it,
\* is that of the row's own identifier, and each career-stat row belongs to
\* exactly one player row, also when players of two teams share a display
\* name.  (Stated for the runs in which no two player rows have the same
\* identifier.)
C9_StatsResolveByIdentifier ==
    (script = "export" /\ DistinctIdentifiers) =>
        /\ \A i \in 1..Len(all_players_df) :
              all_players_df[i].team \in Range(Teams)
        /\ url # <<>> => url = <<all_players_df[StatsFetches].id>>
        /\ \A i \in 1..Len(stat_log) : stat_log[i].url = <<all_players_df[i].id>>
        /\ \A i \in 1..Len(career_stats_df) :
              Cardinality({k \in 1..Len(all_players_df) :
                  all_players_df[k].index = career_stats_df[i].index}) = 1

----------------------------------------------------------------------------
(* C10 *)

\* C10: in summary mode every team whose roster was processed is on exactly
\* one line of each report, also when two teams have the same mean or the
\* same highest-paid player name and salary.
C10_EveryTeamOnOneLine ==
    (script = "summary" /\ pc = "done") =>
        \A t \in Range(Teams) :
            /\ Cardinality(Lines(report1, t)) = 1
            /\ Cardinality(Lines(report2, t)) = 1

====
